---- MODULE Spec2Model ----
(***************************************************************************)
(* A model of churn_library.py: the data loader, the exploratory analyzer, *)
(* the category encoder, the feature engineer, the model trainer and the   *)
(* report generator, with the script's entry sequence.                     *)
(*                                                                         *)
(* Tables (pandas DataFrames) are objects on a heap and are named by       *)
(* reference, as in Python: a table is a record                            *)
(*     [index |-> row labels, columns |-> column names in order,           *)
(*      data |-> [column name |-> the column's values, one per row]].      *)
(* Category values are strings; numbers are exact fractions <<p, q>> in    *)
(* lowest terms (the float p / q the library computes), except Churn,      *)
(* which is the integer 0 or 1.                                            *)
(***************************************************************************)
EXTENDS Integers, Sequences, FiniteSets, TLC

VARIABLES
    pc,            \* position of the running call or of the script
    error,         \* the exception that ended the run, or NoError
    heap,          \* the tables allocated so far; a reference is a position
    csv,           \* the record file at ./data/bank_data.csv, or NoFile
    df_dataset,    \* __main__: reference of the loaded table
    dataframe,     \* encoder_helper / perform_feature_engineering: argument
    df_before,     \* the caller's table as it was when the call was made
    category_lst,  \* encoder_helper: argument
    response,      \* encoder_helper / perform_feature_engineering: argument
    encoder_df,    \* encoder_helper: reference of the working table
    cat_i,         \* encoder_helper: position of the loop over category_lst
    plot_i,        \* perform_eda: the chart being drawn
    features,      \* perform_feature_engineering: the selected feature table
    label,         \* perform_feature_engineering: the target series
    split,         \* the four parts returned by train_test_split
    cv_rfc,        \* train_models: the fitted grid search
    lrc,           \* train_models: the fitted logistic regression
    preds,         \* train_models: the four prediction vectors
    figure,        \* pyplot's current figure: the artists drawn on it
    files,         \* what the run wrote: [path |-> content]
    log,           \* the functions of the pipeline started, in order
    finished       \* the functions of the pipeline that have returned

vars == <<pc, error, heap, csv, df_dataset, dataframe, df_before, category_lst,
          response, encoder_df, cat_i, plot_i, features, label, split, cv_rfc,
          lrc, preds, figure, files, log, finished>>

(***************************************************************************)
(* Bounds of the model                                                     *)
(***************************************************************************)
\* rows of a table handed to encoder_helper directly
MaxEncRows == 3
\* length of the category list handed to encoder_helper directly
MaxCategories == 2
\* rows of a table handed to perform_feature_engineering directly
MaxRows == 4
\* rows of the record file the script reads
MaxCsvRows == 3
\* columns of a feature table handed to feature_importance_plot directly
MaxFeatures == 4
\* largest importance score, in units of the smallest one
MaxImportance == 2

(***************************************************************************)
(* Values                                                                  *)
(***************************************************************************)
NoError == "none"
NoRef == Len(<<>>)

\* pd.DataFrame()
EmptyFrame == [index |-> <<>>, columns |-> <<>>, data |-> [c \in {} |-> <<>>]]

EmptySeries == [index |-> <<>>, values |-> <<>>]

\* no record file at the path
NoFile == [exists |-> FALSE, table |-> EmptyFrame]

\* the values of the variables a call has not assigned yet
NoSplit ==
    [x_train |-> EmptyFrame, x_test |-> EmptyFrame,
     y_train |-> EmptySeries, y_test |-> EmptySeries]

Unfitted == [predict |-> "unfitted", feature_importances_ |-> <<>>]

UnfittedLogistic == [predict |-> "unfitted"]

NoPreds ==
    [y_train_preds_rf |-> <<>>, y_test_preds_rf |-> <<>>,
     y_train_preds_lr |-> <<>>, y_test_preds_lr |-> <<>>]

RECURSIVE GCD(_, _)
GCD(a, b) == IF b = 0 THEN a ELSE GCD(b, a % b)

\* the float p / q, for q > 0 and p >= 0
Frac(p, q) == LET g == GCD(p, q) IN <<p \div g, q \div g>>

RECURSIVE SumSet(_, _)
SumSet(f, S) ==
    IF S = {} THEN 0
    ELSE LET i == CHOOSE j \in S : TRUE IN f[i] + SumSet(f, S \ {i})

Range(s) == {s[i] : i \in 1..Len(s)}

(***************************************************************************)
(* pandas DataFrame                                                        *)
(***************************************************************************)
Rows(df) == Len(df.index)

HasCol(df, c) == c \in DOMAIN df.data

\* df[c] = vals: replaces column c where it exists, appends it otherwise
SetCol(df, c, vals) ==
    [index |-> df.index,
     columns |-> IF HasCol(df, c) THEN df.columns ELSE Append(df.columns, c),
     data |-> [k \in (DOMAIN df.data) \cup {c} |->
                  IF k = c THEN vals ELSE df.data[k]]]

\* dataframe.copy(deep=True): a new object holding the same values
copy_alias(h, ref) == [heap |-> h, ref |-> ref]

copy(h, ref) == [heap |-> Append(h, h[ref]), ref |-> Len(h) + 1]

(***************************************************************************)
(* encoder_helper                                                          *)
(***************************************************************************)
\* the mean of Churn over all rows, whatever their category
column_groups_ungrouped(df, category) ==
    [v \in Range(df.data[category]) |->
        Frac(SumSet(df.data["Churn"], 1..Rows(df)), Rows(df))]

\* encoder_df.groupby(category).mean()['Churn']: for each value of the
\* category column, the mean of Churn over the rows holding that value
column_groups(df, category) ==
    [v \in Range(df.data[category]) |->
        LET group == {i \in 1..Rows(df) : df.data[category][i] = v}
        IN  Frac(SumSet(df.data["Churn"], group), Cardinality(group))]

\* the loop over encoder_df[category]: each row's group mean
column_lst(df, category) ==
    [i \in 1..Rows(df) |-> column_groups(df, category)[df.data[category][i]]]

\* always the suffixed name
encoded_name_suffix(category, resp) == category \o "_" \o resp

\* always the name the feature list expects
encoded_name_churn(category, resp) == category \o "_" \o "Churn"

\* the column the encoded values are stored under (if response: ... else)
encoded_name(category, resp) ==
    IF resp # "" THEN category \o "_" \o resp ELSE category

\* groupby(category) needs the column; ['Churn'] needs a Churn column that
\* is not the grouping key (the key becomes the index of the group table)
encoder_key_error(df, category) ==
    \/ ~HasCol(df, category)
    \/ ~HasCol(df, "Churn")
    \/ category = "Churn"

encoder_helper_copy ==
    /\ pc = "encoder_helper"
    /\ LET c == copy(heap, dataframe)
       IN  /\ heap' = c.heap
           /\ encoder_df' = c.ref
    /\ cat_i' = 1
    /\ pc' = "encoder_loop"
    /\ UNCHANGED <<error, csv, df_dataset, dataframe, df_before, category_lst,
                   response, plot_i, features, label, split, cv_rfc, lrc,
                   preds, figure, files, log, finished>>

encoder_helper_loop ==
    /\ pc = "encoder_loop"
    /\ cat_i <= Len(category_lst)
    /\ LET category == category_lst[cat_i]
           df == heap[encoder_df]
       IN  IF encoder_key_error(df, category)
           THEN /\ error' = "KeyError"
                /\ pc' = "raised"
                /\ UNCHANGED <<heap, cat_i>>
           ELSE /\ heap' = [heap EXCEPT ![encoder_df] =
                              SetCol(df, encoded_name(category, response),
                                     column_lst(df, category))]
                /\ cat_i' = cat_i + 1
                /\ UNCHANGED <<error, pc>>
    /\ UNCHANGED <<csv, df_dataset, dataframe, df_before, category_lst,
                   response, encoder_df, plot_i, features, label, split,
                   cv_rfc, lrc, preds, figure, files, log, finished>>

\* return encoder_df, to a direct caller of encoder_helper
encoder_helper_return ==
    /\ pc = "encoder_loop"
    /\ cat_i > Len(category_lst)
    /\ pc' = "encoder_returned"
    /\ UNCHANGED <<error, heap, csv, df_dataset, dataframe, df_before,
                   category_lst, response, encoder_df, cat_i, plot_i, features,
                   label, split, cv_rfc, lrc, preds, figure, files, log,
                   finished>>

(***************************************************************************)
(* Direct calls of encoder_helper on small tables                          *)
(***************************************************************************)
RECURSIVE SeqsUpTo(_, _)
SeqsUpTo(S, n) ==
    IF n = 0 THEN {<<>>}
    ELSE LET shorter == SeqsUpTo(S, n - 1)
         IN  shorter \cup {Append(s, x) : s \in {t \in shorter : Len(t) = n - 1},
                                          x \in S}

RangeIndex(n) == [i \in 1..n |-> i]

Genders == {"M", "F"}

\* a stale numeric column a table may already carry under an encoded name
CarriedValue(i) == IF i = 1 THEN <<0, 1>> ELSE <<1, 1>>

CardValue(i) == IF i % 2 = 1 THEN "Blue" ELSE "Gold"

\* tables of n rows with Gender, Card_Category, Customer_Age and Churn, and
\* with a Gender_Churn column already there when carried
EncTable(n, gender, churn, carried) ==
    LET names == IF carried
                 THEN <<"Gender", "Card_Category", "Customer_Age", "Churn",
                        "Gender_Churn">>
                 ELSE <<"Gender", "Card_Category", "Customer_Age", "Churn">>
    IN  [index |-> RangeIndex(n),
         columns |-> names,
         data |-> [c \in Range(names) |->
                     CASE c = "Gender" -> gender
                       [] c = "Card_Category" -> [i \in 1..n |-> CardValue(i)]
                       [] c = "Customer_Age" -> [i \in 1..n |-> <<40 + i, 1>>]
                       [] c = "Churn" -> churn
                       [] OTHER -> [i \in 1..n |-> CarriedValue(i)]]]

EncTables ==
    UNION {{EncTable(n, g, ch, carried) :
                g \in [1..n -> Genders], ch \in [1..n -> {0, 1}],
                carried \in BOOLEAN} : n \in 0..MaxEncRows}

EncCategories == {"Gender", "Card_Category", "Gender_Churn", "Churn"}

EncResponses == {"", "Churn"}

\* what a direct call of one function leaves untouched at its start
Quiet ==
    /\ error = NoError
    /\ csv = NoFile
    /\ df_dataset = NoRef
    /\ encoder_df = NoRef
    /\ cat_i = 0
    /\ plot_i = 0
    /\ features = EmptyFrame
    /\ label = EmptySeries
    /\ lrc = UnfittedLogistic
    /\ preds = NoPreds
    /\ figure = <<>>
    /\ files = <<>>
    /\ log = <<>>
    /\ finished = {}

InitEnc ==
    /\ Quiet
    /\ pc = "encoder_helper"
    /\ \E t \in EncTables :
          /\ heap = <<t>>
          /\ df_before = t
    /\ dataframe = 1
    /\ category_lst \in SeqsUpTo(EncCategories, MaxCategories)
    /\ response \in EncResponses
    /\ split = NoSplit
    /\ cv_rfc = Unfitted

NextEnc ==
    \/ encoder_helper_copy
    \/ encoder_helper_loop
    \/ encoder_helper_return

SpecEnc == InitEnc /\ [][NextEnc]_vars

(***************************************************************************)
(* The record file and import_data                                         *)
(***************************************************************************)
NumericColumns ==
    <<"Customer_Age", "Dependent_count", "Months_on_book",
      "Total_Relationship_Count", "Months_Inactive_12_mon",
      "Contacts_Count_12_mon", "Credit_Limit", "Total_Revolving_Bal",
      "Avg_Open_To_Buy", "Total_Amt_Chng_Q4_Q1", "Total_Trans_Amt",
      "Total_Trans_Ct", "Total_Ct_Chng_Q4_Q1", "Avg_Utilization_Ratio">>

\* categorical features
cat_columns ==
    <<"Gender", "Education_Level", "Marital_Status", "Income_Category",
      "Card_Category">>

\* Define features
keep_cols ==
    <<"Customer_Age", "Dependent_count", "Months_on_book",
      "Total_Relationship_Count", "Months_Inactive_12_mon",
      "Contacts_Count_12_mon", "Credit_Limit", "Total_Revolving_Bal",
      "Avg_Open_To_Buy", "Total_Amt_Chng_Q4_Q1", "Total_Trans_Amt",
      "Total_Trans_Ct", "Total_Ct_Chng_Q4_Q1", "Avg_Utilization_Ratio",
      "Gender_Churn", "Education_Level_Churn", "Marital_Status_Churn",
      "Income_Category_Churn", "Card_Category_Churn">>

EncodedColumns ==
    <<"Gender_Churn", "Education_Level_Churn", "Marital_Status_Churn",
      "Income_Category_Churn", "Card_Category_Churn">>

AttritionFlags == {"Existing Customer", "Attrited Customer", "existing customer"}

\* a column of the record file whose absence is a schema error
Droppable == {"Attrition_Flag", "Customer_Age", "Credit_Limit"}

NotDropped == ""

RECURSIVE Without(_, _)
Without(s, x) ==
    IF s = <<>> THEN <<>>
    ELSE IF Head(s) = x THEN Without(Tail(s), x)
         ELSE <<Head(s)>> \o Without(Tail(s), x)

CategoryValue(c, i) ==
    CASE c = "Gender" -> IF i % 2 = 1 THEN "M" ELSE "F"
      [] c = "Education_Level" -> "Graduate"
      [] c = "Marital_Status" -> IF i <= 2 THEN "Married" ELSE "Single"
      [] c = "Income_Category" -> "Less than $40K"
      [] OTHER -> CardValue(i)

\* a record file of n rows with the given Attrition_Flag values; carried:
\* it already holds the five <category>_Churn columns; dropped: a column
\* it lacks
CsvTable(n, flags, carried, dropped) ==
    LET names == Without(<<"Attrition_Flag">> \o NumericColumns \o cat_columns
                            \o (IF carried THEN EncodedColumns ELSE <<>>),
                         dropped)
    IN  [index |-> RangeIndex(n),
         columns |-> names,
         data |-> [c \in Range(names) |->
                     IF c = "Attrition_Flag" THEN flags
                     ELSE IF c \in Range(cat_columns)
                          THEN [i \in 1..n |-> CategoryValue(c, i)]
                     ELSE IF c = "Customer_Age"
                          THEN [i \in 1..n |-> <<40 + i, 1>>]
                     ELSE IF c \in Range(NumericColumns)
                          THEN [i \in 1..n |-> <<i, 1>>]
                     ELSE [i \in 1..n |-> CarriedValue(i)]]]

CsvTables(maxRows, carriedOptions) ==
    UNION {{CsvTable(n, flags, carried, dropped) :
                flags \in [1..n -> AttritionFlags],
                carried \in carriedOptions,
                dropped \in Droppable \cup {NotDropped}} : n \in 0..maxRows}

\* lambda val: 0 if val == "Attrited Customer" ... (the flag test inverted)
churn_of_attrited(val) == IF val = "Attrited Customer" THEN 1 ELSE 0

\* lambda val: 0 if val == "Existing Customer" else 1
churn_of(val) == IF val = "Existing Customer" THEN 0 ELSE 1

\* df_data['Churn'] = df_data['Attrition_Flag'].apply(...)
with_churn(df_data) ==
    SetCol(df_data, "Churn",
           [i \in 1..Rows(df_data) |-> churn_of(df_data.data["Attrition_Flag"][i])])

(***************************************************************************)
(* perform_feature_engineering                                             *)
(***************************************************************************)
\* test_size=0.3, as a fraction
test_size_num == 3
test_size_den == 10

\* train_test_split, test_size a float: n_test = ceil(test_size * n_samples)
n_test_of(n_samples) ==
    (test_size_num * n_samples + test_size_den - 1) \div test_size_den

RowPermutations(n) ==
    {p \in [1..n -> 1..n] : \A i, j \in 1..n : p[i] = p[j] => i = j}

\* the rows of a table at the given positions, in that order
take(df, positions) ==
    [index |-> [k \in 1..Len(positions) |-> df.index[positions[k]]],
     columns |-> df.columns,
     data |-> [c \in DOMAIN df.data |->
                 [k \in 1..Len(positions) |-> df.data[c][positions[k]]]]]

\* the entries of a series at the given positions, in that order
take_series(series, positions) ==
    [index |-> [k \in 1..Len(positions) |-> series.index[positions[k]]],
     values |-> [k \in 1..Len(positions) |-> series.values[positions[k]]]]

\* the label split left in input order
shuffle_split_labels_unshuffled(X, y, permutation) ==
    LET n == Rows(X)
        n_test == n_test_of(n)
        ind_test == [k \in 1..n_test |-> permutation[k]]
        ind_train == [k \in 1..(n - n_test) |-> permutation[n_test + k]]
    IN  [x_train |-> take(X, ind_train),
         x_test |-> take(X, ind_test),
         y_train |-> take_series(y, [k \in 1..(n - n_test) |-> k]),
         y_test |-> take_series(y, [k \in 1..n_test |-> n - n_test + k])]

\* ShuffleSplit: the first n_test entries of the permutation are the test
\* rows and the rest the train rows; every array is indexed by the same rows
shuffle_split(X, y, permutation) ==
    LET n == Rows(X)
        n_test == n_test_of(n)
        ind_test == [k \in 1..n_test |-> permutation[k]]
        ind_train == [k \in 1..(n - n_test) |-> permutation[n_test + k]]
    IN  [x_train |-> take(X, ind_train),
         x_test |-> take(X, ind_test),
         y_train |-> take_series(y, ind_train),
         y_test |-> take_series(y, ind_test)]

\* cat_columns and the call of encoder_helper
perform_feature_engineering_encode ==
    /\ pc = "perform_feature_engineering"
    /\ category_lst' = cat_columns
    /\ log' = Append(log, "perform_feature_engineering")
    /\ pc' = "encoder_helper"
    /\ UNCHANGED <<error, heap, csv, df_dataset, dataframe, df_before,
                   response, encoder_df, cat_i, plot_i, features, label, split,
                   cv_rfc, lrc, preds, figure, files, finished>>

\* label = encoded_df['Churn']; features[keep_cols] = encoded_df[keep_cols]
perform_feature_engineering_select ==
    /\ pc = "encoder_returned"
    /\ LET encoded_df == heap[encoder_df]
       IN  IF \/ ~HasCol(encoded_df, "Churn")
              \/ \E k \in 1..Len(keep_cols) : ~HasCol(encoded_df, keep_cols[k])
           THEN /\ error' = "KeyError"
                /\ pc' = "raised"
                /\ UNCHANGED <<features, label>>
           ELSE /\ label' = [index |-> encoded_df.index,
                             values |-> encoded_df.data["Churn"]]
                /\ features' = [index |-> encoded_df.index,
                                columns |-> keep_cols,
                                data |-> [c \in Range(keep_cols) |->
                                            encoded_df.data[c]]]
                /\ pc' = "train_test_split"
                /\ UNCHANGED error
    /\ UNCHANGED <<heap, csv, df_dataset, dataframe, df_before, category_lst,
                   response, encoder_df, cat_i, plot_i, split, cv_rfc, lrc,
                   preds, figure, files, log, finished>>

\* train_test_split(features, label, test_size=0.3, random_state=42) and
\* the return of the four parts
perform_feature_engineering_split ==
    /\ pc = "train_test_split"
    /\ LET n_samples == Rows(features)
       IN  IF n_samples - n_test_of(n_samples) = 0
           THEN /\ error' = "ValueError"
                /\ pc' = "raised"
                /\ UNCHANGED <<split, finished>>
           ELSE /\ \E permutation \in RowPermutations(n_samples) :
                      split' = shuffle_split(features, label, permutation)
                /\ finished' = finished \cup {"perform_feature_engineering"}
                /\ pc' = "perform_feature_engineering_returned"
                /\ UNCHANGED error
    /\ UNCHANGED <<heap, csv, df_dataset, dataframe, df_before, category_lst,
                   response, encoder_df, cat_i, plot_i, features, label,
                   cv_rfc, lrc, preds, figure, files, log>>

(***************************************************************************)
(* Direct calls of perform_feature_engineering on loaded tables            *)
(***************************************************************************)
Responses == {"Churn", "", "Target"}

InitFE ==
    /\ Quiet
    /\ pc = "perform_feature_engineering"
    /\ \E t \in CsvTables(MaxRows, BOOLEAN) :
          /\ HasCol(t, "Attrition_Flag")
          /\ heap = <<with_churn(t)>>
          /\ df_before = with_churn(t)
    /\ dataframe = 1
    /\ category_lst = <<>>
    /\ response \in Responses
    /\ split = NoSplit
    /\ cv_rfc = Unfitted

NextFE ==
    \/ perform_feature_engineering_encode
    \/ encoder_helper_copy
    \/ encoder_helper_loop
    \/ encoder_helper_return
    \/ perform_feature_engineering_select
    \/ perform_feature_engineering_split

SpecFE == InitFE /\ [][NextFE]_vars

(***************************************************************************)
(* perform_eda                                                             *)
(***************************************************************************)
\* the five charts, in the order drawn: the column each reads ("" for the
\* correlation heatmap of the whole table) and the file it is saved to
EdaCharts ==
    <<[column |-> "Churn", kind |-> "hist",
       fname |-> "./images/eda/churn_distribution.png"],
      [column |-> "Customer_Age", kind |-> "hist",
       fname |-> "./images/eda/customer_age_distribution.png"],
      [column |-> "Marital_Status", kind |-> "bar",
       fname |-> "./images/eda/marital_status_distribution.png"],
      [column |-> "Total_Trans_Ct", kind |-> "histplot",
       fname |-> "./images/eda/total_transaction_distribution.png"],
      [column |-> "", kind |-> "heatmap",
       fname |-> "./images/eda/heatmap.png"]>>

\* plt.savefig(fname=...): the file holds what the current figure shows
savefig(fs, fname, content) ==
    [f \in (DOMAIN fs) \cup {fname} |-> IF f = fname THEN content ELSE fs[f]]

\* one chart of perform_eda: a new figure, the plot, the save
perform_eda_chart ==
    /\ pc = "perform_eda"
    /\ plot_i <= Len(EdaCharts)
    /\ LET chart == EdaCharts[plot_i]
           eda_df == heap[df_dataset]
       IN  IF chart.column # "" /\ ~HasCol(eda_df, chart.column)
           THEN /\ error' = "KeyError"
                /\ pc' = "raised"
                /\ UNCHANGED <<figure, files, plot_i, finished>>
           ELSE /\ figure' = <<[kind |-> chart.kind, of |-> chart.column]>>
                /\ files' = savefig(files, chart.fname, figure')
                /\ plot_i' = plot_i + 1
                /\ IF plot_i = Len(EdaCharts)
                   THEN /\ pc' = "main_feature_engineering"
                        /\ finished' = finished \cup {"perform_eda"}
                   ELSE UNCHANGED <<pc, finished>>
                /\ UNCHANGED error
    /\ log' = IF plot_i = 1 THEN Append(log, "perform_eda") ELSE log
    /\ UNCHANGED <<heap, csv, df_dataset, dataframe, df_before, category_lst,
                   response, encoder_df, cat_i, features, label, split, cv_rfc,
                   lrc, preds>>

(***************************************************************************)
(* train_models and the reports                                            *)
(***************************************************************************)
\* what a fitted classifier answers for row k of a feature table
predict_row(kind, X, k) ==
    CASE kind = "never" -> 0
      [] kind = "always" -> 1
      [] OTHER -> IF X.data["Customer_Age"][k][1] > 41 THEN 1 ELSE 0

\* model.predict(X): one label per row of X
predict(model, X) == [k \in 1..Rows(X) |-> predict_row(model.predict, X, k)]

\* the fitted forests the grid search may select: how the best estimator
\* predicts and its feature_importances_, one score per feature column
FittedForests ==
    {[predict |-> "older",
      feature_importances_ |-> [i \in 1..Len(keep_cols) |-> i]],
     [predict |-> "always",
      feature_importances_ |-> [i \in 1..Len(keep_cols) |-> 20 - i]],
     [predict |-> "never",
      feature_importances_ |-> [i \in 1..Len(keep_cols) |->
                                   IF i <= 2 THEN 30 ELSE i]]}

FittedLogistics == {[predict |-> "never"], [predict |-> "older"]}

\* classification_report(y_true, y_pred): the counts of each (true,
\* predicted) pair, from which precision, recall, F1 and support follow
classification_report(y_true, y_pred) ==
    [t \in {0, 1} |-> [q \in {0, 1} |->
        Cardinality({k \in 1..Len(y_true) : y_true[k] = t /\ y_pred[k] = q})]]

NoReport == [t \in {0, 1} |-> [q \in {0, 1} |-> 0 - 1]]

\* plt.text(x, y, s, ...), the coordinates in hundredths
heading_text(x, y, s) == [x |-> x, y |-> y, heading |-> s, report |-> NoReport]

report_text(x, y, r) == [x |-> x, y |-> y, heading |-> "", report |-> r]

\* cv_rfc.fit(x_train, y_train): the search returns fitted, or raises
train_models_fit_rfc ==
    /\ pc = "train_models"
    /\ \/ /\ cv_rfc' \in FittedForests
          /\ pc' = "fit_lrc"
          /\ UNCHANGED error
       \/ /\ error' = "ValueError"
          /\ pc' = "raised"
          /\ UNCHANGED cv_rfc
    /\ log' = Append(log, "train_models")
    /\ UNCHANGED <<heap, csv, df_dataset, dataframe, df_before, category_lst,
                   response, encoder_df, cat_i, plot_i, features, label, split,
                   lrc, preds, figure, files, finished>>

\* the forest saved as soon as it is fitted, before the second fit
train_models_fit_lrc_after_dump ==
    /\ pc = "fit_lrc"
    /\ files' = savefig(files, "./models/rfc_model.pkl", cv_rfc)
    /\ \/ /\ lrc' \in FittedLogistics
          /\ pc' = "dump_rfc"
          /\ UNCHANGED error
       \/ /\ error' = "ValueError"
          /\ pc' = "raised"
          /\ UNCHANGED lrc
    /\ UNCHANGED <<heap, csv, df_dataset, dataframe, df_before, category_lst,
                   response, encoder_df, cat_i, plot_i, features, label, split,
                   cv_rfc, preds, figure, log, finished>>

\* lrc.fit(x_train, y_train)
train_models_fit_lrc ==
    /\ pc = "fit_lrc"
    /\ \/ /\ lrc' \in FittedLogistics
          /\ pc' = "dump_rfc"
          /\ UNCHANGED error
       \/ /\ error' = "ValueError"
          /\ pc' = "raised"
          /\ UNCHANGED lrc
    /\ UNCHANGED <<heap, csv, df_dataset, dataframe, df_before, category_lst,
                   response, encoder_df, cat_i, plot_i, features, label, split,
                   cv_rfc, preds, figure, files, log, finished>>

\* joblib.dump(cv_rfc.best_estimator_, './models/rfc_model.pkl')
train_models_dump_rfc ==
    /\ pc = "dump_rfc"
    /\ files' = savefig(files, "./models/rfc_model.pkl", cv_rfc)
    /\ pc' = "dump_lrc"
    /\ UNCHANGED <<error, heap, csv, df_dataset, dataframe, df_before,
                   category_lst, response, encoder_df, cat_i, plot_i, features,
                   label, split, cv_rfc, lrc, preds, figure, log, finished>>

\* joblib.dump(lrc, './models/logistic_model.pkl')
train_models_dump_lrc ==
    /\ pc = "dump_lrc"
    /\ files' = savefig(files, "./models/logistic_model.pkl", lrc)
    /\ pc' = "predict"
    /\ UNCHANGED <<error, heap, csv, df_dataset, dataframe, df_before,
                   category_lst, response, encoder_df, cat_i, plot_i, features,
                   label, split, cv_rfc, lrc, preds, figure, log, finished>>

\* the four prediction vectors
train_models_predict ==
    /\ pc = "predict"
    /\ preds' = [y_train_preds_rf |-> predict(cv_rfc, split.x_train),
                 y_test_preds_rf |-> predict(cv_rfc, split.x_test),
                 y_train_preds_lr |-> predict(lrc, split.x_train),
                 y_test_preds_lr |-> predict(lrc, split.x_test)]
    /\ pc' = "roc_curve"
    /\ UNCHANGED <<error, heap, csv, df_dataset, dataframe, df_before,
                   category_lst, response, encoder_df, cat_i, plot_i, features,
                   label, split, cv_rfc, lrc, figure, files, log, finished>>

\* the two ROC curves on one new figure, saved
train_models_roc_curve ==
    /\ pc = "roc_curve"
    /\ figure' = <<[kind |-> "roc", of |-> "lrc"], [kind |-> "roc", of |-> "rfc"]>>
    /\ files' = savefig(files, "./images/results/roc_curve_result.png", figure')
    /\ pc' = "classification_report_image"
    /\ UNCHANGED <<error, heap, csv, df_dataset, dataframe, df_before,
                   category_lst, response, encoder_df, cat_i, plot_i, features,
                   label, split, cv_rfc, lrc, preds, log, finished>>

\* the texts of the random forest image, in the order drawn
random_forest_texts(y_train, y_test, y_train_preds_rf, y_test_preds_rf) ==
    <<heading_text(1, 125, "Random Forest Train"),
      report_text(1, 5, classification_report(y_test, y_test_preds_rf)),
      heading_text(1, 60, "Random Forest Test"),
      report_text(1, 70, classification_report(y_train, y_train_preds_rf))>>

\* the texts of the logistic regression image, in the order drawn
logistic_regression_texts(y_train, y_test, y_train_preds_lr, y_test_preds_lr) ==
    <<heading_text(1, 125, "Logistic Regression Train"),
      report_text(1, 5, classification_report(y_train, y_train_preds_lr)),
      heading_text(1, 60, "Logistic Regression Test"),
      report_text(1, 70, classification_report(y_test, y_test_preds_lr))>>

\* classification_report_image, first half: a new figure, the four texts of
\* the random forest, the save; the arguments as train_models passes them
classification_report_image_rf ==
    /\ pc = "classification_report_image"
    /\ figure' = random_forest_texts(split.y_train.values, split.y_test.values,
                                     preds.y_train_preds_rf,
                                     preds.y_test_preds_rf)
    /\ files' = savefig(files, "./images/results/rf_results.png", figure')
    /\ log' = Append(log, "classification_report_image")
    /\ pc' = "classification_report_image_lr"
    /\ UNCHANGED <<error, heap, csv, df_dataset, dataframe, df_before,
                   category_lst, response, encoder_df, cat_i, plot_i, features,
                   label, split, cv_rfc, lrc, preds, finished>>

\* the second image saved over the first
classification_report_image_lr_same_file ==
    /\ pc = "classification_report_image_lr"
    /\ figure' = logistic_regression_texts(split.y_train.values,
                                           split.y_test.values,
                                           preds.y_train_preds_lr,
                                           preds.y_test_preds_lr)
    /\ files' = savefig(files, "./images/results/rf_results.png", figure')
    /\ finished' = finished \cup {"classification_report_image"}
    /\ pc' = "feature_importance_plot"
    /\ UNCHANGED <<error, heap, csv, df_dataset, dataframe, df_before,
                   category_lst, response, encoder_df, cat_i, plot_i, features,
                   label, split, cv_rfc, lrc, preds, log>>

\* classification_report_image, second half: the logistic regression
classification_report_image_lr ==
    /\ pc = "classification_report_image_lr"
    /\ figure' = logistic_regression_texts(split.y_train.values,
                                           split.y_test.values,
                                           preds.y_train_preds_lr,
                                           preds.y_test_preds_lr)
    /\ files' = savefig(files, "./images/results/logistic_results.png", figure')
    /\ finished' = finished \cup {"classification_report_image"}
    /\ pc' = "feature_importance_plot"
    /\ UNCHANGED <<error, heap, csv, df_dataset, dataframe, df_before,
                   category_lst, response, encoder_df, cat_i, plot_i, features,
                   label, split, cv_rfc, lrc, preds, log>>

\* np.argsort(importances): the orders of the indices 1..n in which the
\* scores ascend; equal scores may come in either order
RECURSIVE argsort(_, _)
argsort(importances, S) ==
    IF S = {} THEN {<<>>}
    ELSE UNION {{<<i>> \o rest : rest \in argsort(importances, S \ {i})} :
                    i \in {j \in S : \A k \in S : importances[j] <= importances[k]}}

\* [::-1]
reversed(s) == [k \in 1..Len(s) |-> s[Len(s) + 1 - k]]

\* the bars in the order of the columns, the labels sorted
bar_chart_unsorted_bars(importances, columns, indices) ==
    [title |-> "Feature Importance",
     ylabel |-> "Importance",
     bars |-> importances,
     xticks |-> [k \in 1..Len(indices) |-> columns[indices[k]]]]

\* plt.bar(range(n), importances[indices]) and plt.xticks(range(n), names)
bar_chart(importances, columns, indices) ==
    [title |-> "Feature Importance",
     ylabel |-> "Importance",
     bars |-> [k \in 1..Len(indices) |-> importances[indices[k]]],
     xticks |-> [k \in 1..Len(indices) |-> columns[indices[k]]]]

\* feature_importance_plot(model=cv_rfc, features=x_test,
\*                         output_pth='./images/results/')
feature_importance_plot ==
    /\ pc = "feature_importance_plot"
    /\ LET importances == cv_rfc.feature_importances_
       IN  \E order \in argsort(importances, DOMAIN importances) :
              figure' = <<bar_chart(importances, split.x_test.columns,
                                    reversed(order))>>
    /\ files' = savefig(files, "./images/results/" \o "feature_importances.png",
                        figure')
    /\ log' = Append(log, "feature_importance_plot")
    /\ finished' = finished \cup {"feature_importance_plot"}
    /\ pc' = "feature_importance_plot_returned"
    /\ UNCHANGED <<error, heap, csv, df_dataset, dataframe, df_before,
                   category_lst, response, encoder_df, cat_i, plot_i, features,
                   label, split, cv_rfc, lrc, preds>>

\* train_models returns and the script ends
train_models_return ==
    /\ pc = "feature_importance_plot_returned"
    /\ finished' = finished \cup {"train_models"}
    /\ pc' = "done"
    /\ UNCHANGED <<error, heap, csv, df_dataset, dataframe, df_before,
                   category_lst, response, encoder_df, cat_i, plot_i, features,
                   label, split, cv_rfc, lrc, preds, figure, files, log>>

(***************************************************************************)
(* __main__                                                                *)
(***************************************************************************)
\* df_dataset = import_data(pth='./data/bank_data.csv')
main_import_data ==
    /\ pc = "main"
    /\ log' = Append(log, "import_data")
    /\ IF ~csv.exists
       THEN /\ error' = "FileNotFoundError"
            /\ pc' = "raised"
            /\ UNCHANGED <<heap, df_dataset, plot_i, finished>>
       ELSE IF ~HasCol(csv.table, "Attrition_Flag")
       THEN /\ error' = "KeyError"
            /\ pc' = "raised"
            /\ UNCHANGED <<heap, df_dataset, plot_i, finished>>
       ELSE /\ heap' = Append(heap, with_churn(csv.table))
            /\ df_dataset' = Len(heap) + 1
            /\ finished' = finished \cup {"import_data"}
            /\ plot_i' = 1
            /\ pc' = "perform_eda"
            /\ UNCHANGED error
    /\ UNCHANGED <<csv, dataframe, df_before, category_lst, response,
                   encoder_df, cat_i, features, label, split, cv_rfc, lrc,
                   preds, figure, files>>

\* perform_feature_engineering(dataframe=df_dataset, response='Churn')
main_perform_feature_engineering ==
    /\ pc = "main_feature_engineering"
    /\ dataframe' = df_dataset
    /\ df_before' = heap[df_dataset]
    /\ response' = "Churn"
    /\ pc' = "perform_feature_engineering"
    /\ UNCHANGED <<error, heap, csv, df_dataset, category_lst, encoder_df,
                   cat_i, plot_i, features, label, split, cv_rfc, lrc, preds,
                   figure, files, log, finished>>

\* train_models(x_train=X_train, x_test=X_test, y_train=Y_train, y_test=Y_test)
main_train_models ==
    /\ pc = "perform_feature_engineering_returned"
    /\ pc' = "train_models"
    /\ UNCHANGED <<error, heap, csv, df_dataset, dataframe, df_before,
                   category_lst, response, encoder_df, cat_i, plot_i, features,
                   label, split, cv_rfc, lrc, preds, figure, files, log,
                   finished>>

Init ==
    /\ pc = "main"
    /\ error = NoError
    /\ csv \in {NoFile} \cup {[exists |-> TRUE, table |-> t] :
                               t \in CsvTables(MaxCsvRows, {FALSE})}
    /\ heap = <<>>
    /\ df_dataset = NoRef
    /\ dataframe = NoRef
    /\ df_before = EmptyFrame
    /\ category_lst = <<>>
    /\ response = ""
    /\ encoder_df = NoRef
    /\ cat_i = 0
    /\ plot_i = 0
    /\ features = EmptyFrame
    /\ label = EmptySeries
    /\ split = NoSplit
    /\ cv_rfc = Unfitted
    /\ lrc = UnfittedLogistic
    /\ preds = NoPreds
    /\ figure = <<>>
    /\ files = <<>>
    /\ log = <<>>
    /\ finished = {}

Next ==
    \/ main_import_data
    \/ perform_eda_chart
    \/ main_perform_feature_engineering
    \/ perform_feature_engineering_encode
    \/ encoder_helper_copy
    \/ encoder_helper_loop
    \/ encoder_helper_return
    \/ perform_feature_engineering_select
    \/ perform_feature_engineering_split
    \/ main_train_models
    \/ train_models_fit_rfc
    \/ train_models_fit_lrc
    \/ train_models_dump_rfc
    \/ train_models_dump_lrc
    \/ train_models_predict
    \/ train_models_roc_curve
    \/ classification_report_image_rf
    \/ classification_report_image_lr
    \/ feature_importance_plot
    \/ train_models_return

Spec == Init /\ [][Next]_vars

(***************************************************************************)
(* Direct calls of feature_importance_plot on small feature tables         *)
(***************************************************************************)
FeatureTable(m) ==
    [index |-> <<1>>,
     columns |-> [k \in 1..m |-> keep_cols[k]],
     data |-> [c \in {keep_cols[k] : k \in 1..m} |-> <<<<1, 1>>>>]]

InitPlot ==
    /\ Quiet
    /\ pc = "feature_importance_plot"
    /\ heap = <<>>
    /\ dataframe = NoRef
    /\ df_before = EmptyFrame
    /\ category_lst = <<>>
    /\ response = ""
    /\ \E m \in 0..MaxFeatures :
          /\ cv_rfc \in [predict : {"never"},
                         feature_importances_ : [1..m -> 0..MaxImportance]]
          /\ split = [x_train |-> FeatureTable(m), x_test |-> FeatureTable(m),
                      y_train |-> EmptySeries, y_test |-> EmptySeries]

NextPlot == feature_importance_plot

SpecPlot == InitPlot /\ [][NextPlot]_vars

(***************************************************************************)
(* Properties of encoder_helper                                            *)
(***************************************************************************)
Returned == pc = "encoder_returned"

Input == df_before

Output == heap[encoder_df]

\* the rows of table t that share row r's value in column c
SameCategory(t, c, r) == {i \in 1..Rows(t) : t.data[c][i] = t.data[c][r]}

\* (sum of Churn over the rows sharing r's value in c) / (their number)
GroupMean(t, c, r) ==
    LET rows == SameCategory(t, c, r)
        total == SumSet(t.data["Churn"], rows)
    IN  CHOOSE f \in (0..total) \X (1..Cardinality(rows)) :
            /\ f[1] * Cardinality(rows) = total * f[2]
            /\ \A g \in (0..total) \X (1..Cardinality(rows)) :
                  g[1] * Cardinality(rows) = total * g[2] => f[2] <= g[2]

OutputName(c) == IF response = "" THEN c ELSE c \o "_" \o response

\* position k of category_lst names a column that an earlier position has
\* stored its encoded values under
Clobbered(k) ==
    \E j \in 1..(k - 1) :
        response # "" /\ category_lst[k] = category_lst[j] \o "_" \o response

EncodedFromInput(k) ==
    LET c == category_lst[k]
    IN  HasCol(Input, c) =>
            \A r \in 1..Rows(Input) :
                Output.data[OutputName(c)][r] = GroupMean(Input, c, r)

\* C2 as stated: every encoded column holds, in each row, the mean of Churn
\* over the rows of the full input table that share the row's category value.
C2_AsStated ==
    Returned => \A k \in 1..Len(category_lst) : EncodedFromInput(k)

\* C2, amended: the encoded column of c holds, in each row, the mean of Churn
\* over the rows of the full input table sharing the row's value in c,
\* unless c is itself the name (c' + '_' + response) under which an entry c'
\* of category_lst that comes before an occurrence of c stored its encoded
\* values.
C2_GroupMean ==
    Returned =>
        \A k \in 1..Len(category_lst) :
            (\A m \in 1..Len(category_lst) :
                category_lst[m] = category_lst[k] => ~Clobbered(m))
                => EncodedFromInput(k)

\* two rows share a category with Churn 0 and 1 and both are encoded 1/2
C2_Witness ==
    /\ Returned
    /\ category_lst # <<>>
    /\ \E r1, r2 \in 1..Rows(Input) :
          LET c == category_lst[1]
          IN  /\ SameCategory(Input, c, r1) = {r1, r2}
              /\ Input.data["Churn"][r1] = 0
              /\ Input.data["Churn"][r2] = 1
              /\ Output.data[OutputName(c)][r1] = <<1, 2>>
              /\ Output.data[OutputName(c)][r2] = <<1, 2>>

\* C4: encoder_helper never modifies the table passed in: at every point of
\* the call the caller's table has the columns and the cell values it had
\* when the call was made, in both naming modes.
C4_InputUnmodified == heap[dataframe] = df_before

\* the call has stored encoded columns in its working table, in either mode
C4_Witness ==
    /\ Returned
    /\ Len(category_lst) = MaxCategories
    /\ Output # df_before
    /\ encoder_df # dataframe

\* C10 as stated: a non-empty response adds a new column c_response with the
\* encoded values and leaves c alone; an empty response adds no column and
\* replaces c; columns not named in category_lst keep their values.
C10_AsStated ==
    Returned /\ (\A k \in 1..Len(category_lst) : HasCol(Input, category_lst[k])) =>
        /\ \A k \in 1..Len(category_lst) :
              LET c == category_lst[k]
              IN  IF response # ""
                  THEN /\ ~HasCol(Input, OutputName(c))
                       /\ HasCol(Output, OutputName(c))
                       /\ EncodedFromInput(k)
                       /\ HasCol(Output, c)
                       /\ Output.data[c] = Input.data[c]
                  ELSE /\ Output.columns = Input.columns
                       /\ EncodedFromInput(k)
        /\ \A col \in (DOMAIN Input.data) \ Range(category_lst) :
              Output.data[col] = Input.data[col]

\* the input table carries no column under a name c + '_' + response
NoCarriedName ==
    \A k \in 1..Len(category_lst) :
        response # "" => ~HasCol(Input, OutputName(category_lst[k]))

\* C10, amended: as stated, for a non-empty response provided the input table
\* has no column already named c + '_' + response for a c of category_lst (a
\* column of that name is overwritten, not added); for an empty response as
\* stated.
C10_NamingMode == NoCarriedName => C10_AsStated

\* a call on MaxCategories different columns of a table of several rows that
\* carries none of the names c + '_' + response has returned
C10_Witness ==
    /\ Returned
    /\ NoCarriedName
    /\ \A k \in 1..Len(category_lst) : HasCol(Input, category_lst[k])
    /\ Len(category_lst) = MaxCategories
    /\ category_lst[1] # category_lst[2]
    /\ Rows(Input) > 1

(***************************************************************************)
(* Properties of perform_feature_engineering                               *)
(***************************************************************************)
FEReturned == pc = "perform_feature_engineering_returned"

\* the position in the input table of the row labelled i
RowOf(i) == CHOOSE r \in 1..Rows(Input) : Input.index[r] = i

\* 30% of n rows, rounded up: the least k with k >= 3n/10
ThirtyPercentUp(n) == CHOOSE k \in 0..n : 10 * k >= 3 * n /\ 10 * (k - 1) < 3 * n

Injective(s) == \A i, j \in 1..Len(s) : s[i] = s[j] => i = j

\* the features and the label at each position come from one input row
Aligned(x, y) ==
    /\ x.index = y.index
    /\ \A k \in 1..Rows(x) :
          LET r == RowOf(x.index[k])
          IN  /\ y.values[k] = Input.data["Churn"][r]
              /\ \A c \in Range(NumericColumns) :
                    x.data[c][k] = Input.data[c][r]
              /\ \A c \in Range(keep_cols) :
                    x.data[c][k] = features.data[c][r]

\* C3: the train and test sets are disjoint and hold every input row exactly
\* once, the test set holds 30% of the rows rounded up and the train set the
\* rest (10 rows: 7 and 3), and features and labels are split into the same
\* rows in the same order.
C3_Split ==
    /\ n_test_of(10) = 3
    /\ FEReturned =>
        LET n == Rows(Input)
        IN  /\ Rows(split.x_test) = ThirtyPercentUp(n)
            /\ Rows(split.x_train) = n - ThirtyPercentUp(n)
            /\ Rows(split.x_train) + Rows(split.x_test) = n
            /\ Injective(split.x_train.index \o split.x_test.index)
            /\ Range(split.x_train.index) \cap Range(split.x_test.index) = {}
            /\ Range(split.x_train.index) \cup Range(split.x_test.index)
                   = Range(Input.index)
            /\ Aligned(split.x_train, split.y_train)
            /\ Aligned(split.x_test, split.y_test)

\* a shuffled split of MaxRows rows whose train labels differ
C3_Witness ==
    /\ FEReturned
    /\ Rows(Input) = MaxRows
    /\ Rows(split.x_train) > 1
    /\ split.x_train.index[1] > split.x_train.index[2]
    /\ split.y_train.values[1] # split.y_train.values[2]

\* the encoded table is complete and lacks one of the 19 feature columns
FeatureAbsent ==
    /\ encoder_df # NoRef
    /\ cat_i > Len(category_lst)
    /\ \E k \in 1..Len(keep_cols) : ~HasCol(heap[encoder_df], keep_cols[k])

\* the table passed in lacks one of the five <category>_Churn columns
NotCarried == \E k \in 1..Len(EncodedColumns) : ~HasCol(Input, EncodedColumns[k])

\* C5, the states: while a feature column is absent no split exists, and a
\* call that has stopped has stopped on KeyError
C5_NoSplit ==
    FeatureAbsent \/ (response # "Churn" /\ NotCarried) =>
        /\ split = NoSplit
        /\ ~FEReturned
        /\ pc # "train_test_split"
        /\ pc = "raised" => error = "KeyError"

\* C5, the steps: the selection of the feature columns raises KeyError
C5_Raises ==
    pc = "encoder_returned" /\ FeatureAbsent =>
        pc' = "raised" /\ error' = "KeyError" /\ split' = NoSplit

\* C5: perform_feature_engineering fails with a key-not-found error and
\* returns no split whenever one of the 19 feature columns is absent from
\* the encoded table; that is the case of every call whose response is not
\* "Churn" on a table that does not carry the five <category>_Churn columns.
C5_KeyError == [](C5_NoSplit) /\ [][C5_Raises]_vars

\* a call with another response on a table with every raw column has raised
C5_Witness ==
    /\ pc = "raised"
    /\ error = "KeyError"
    /\ response = "Target"
    /\ NotCarried
    /\ \A k \in 1..Len(NumericColumns) : HasCol(Input, NumericColumns[k])
    /\ HasCol(heap[encoder_df], "Gender_Target")
    /\ Rows(Input) > 1

(***************************************************************************)
(* Properties of import_data                                               *)
(***************************************************************************)
Loaded == df_dataset # NoRef

\* C1: after import_data succeeds, in every row of the returned table Churn
\* is 1 if and only if Attrition_Flag differs from "Existing Customer" and 0
\* otherwise, so rows with equal Attrition_Flag have equal Churn.
C1_Churn ==
    Loaded =>
        LET df == heap[df_dataset]
            flag == df.data["Attrition_Flag"]
            churn == df.data["Churn"]
        IN  /\ flag = csv.table.data["Attrition_Flag"]
            /\ Len(churn) = Len(flag)
            /\ \A r \in 1..Rows(df) :
                  /\ churn[r] \in {0, 1}
                  /\ churn[r] = 1 <=> flag[r] # "Existing Customer"
            /\ \A r1, r2 \in 1..Rows(df) :
                  flag[r1] = flag[r2] => churn[r1] = churn[r2]

\* a loaded table with an existing customer and a row of another status
\* that is not "Attrited Customer"
C1_Witness ==
    /\ Loaded
    /\ \E r1, r2 \in 1..Rows(heap[df_dataset]) :
          LET df == heap[df_dataset]
          IN  /\ df.data["Attrition_Flag"][r1] = "Existing Customer"
              /\ df.data["Churn"][r1] = 0
              /\ df.data["Attrition_Flag"][r2] = "existing customer"
              /\ df.data["Churn"][r2] = 1

(***************************************************************************)
(* Properties of the run of the script                                     *)
(***************************************************************************)
EdaFiles == {EdaCharts[k].fname : k \in 1..Len(EdaCharts)}

ModelFiles == {"./models/rfc_model.pkl", "./models/logistic_model.pkl"}

ResultFiles ==
    {"./images/results/roc_curve_result.png", "./images/results/rf_results.png",
     "./images/results/logistic_results.png",
     "./images/results/feature_importances.png"}

Written == DOMAIN files

\* the run was ended by a fit of train_models raising
FitFailed ==
    /\ pc = "raised"
    /\ log # <<>>
    /\ log[Len(log)] = "train_models"

\* C6: when the fit of either classifier fails in train_models, the run has
\* written neither model file nor any file under images/results/, and the
\* five images/eda/ files of perform_eda are on disk.
C6_NoPartialResults ==
    FitFailed =>
        /\ Written \cap ModelFiles = {}
        /\ Written \cap ResultFiles = {}
        /\ Written = EdaFiles
        /\ Cardinality(EdaFiles) = 5

\* the forest was fitted and the fit of the logistic regression failed
C6_Witness ==
    /\ FitFailed
    /\ cv_rfc # Unfitted
    /\ lrc = UnfittedLogistic
    /\ Written = EdaFiles

Order ==
    <<"import_data", "perform_eda", "perform_feature_engineering",
      "train_models", "classification_report_image", "feature_importance_plot">>

\* the training stage of train_models is over: both models are fitted and
\* saved, the predictions are computed and the ROC image is saved
Trained ==
    /\ cv_rfc # Unfitted
    /\ lrc # UnfittedLogistic
    /\ preds # NoPreds
    /\ ModelFiles \cup {"./images/results/roc_curve_result.png"} \subseteq Written

\* step k of the run started after step k - 1 was over; the reports are
\* called by train_models, once its training stage is over
StartedInTurn(k) ==
    IF log[k] = "classification_report_image" THEN Trained
    ELSE log[k - 1] \in finished

\* C7: the steps run in the order import_data, perform_eda,
\* perform_feature_engineering, train_models, classification_report_image,
\* feature_importance_plot, each at most once and none before the one
\* before it is over; a run in which no step fails goes on to its end, and
\* has then written the five images/eda/ files, the two model files and the
\* four images/results/ files.
C7_Run ==
    /\ Len(log) <= Len(Order)
    /\ \A k \in 1..Len(log) : log[k] = Order[k]
    /\ \A k \in 2..Len(log) : StartedInTurn(k)
    /\ \A f \in finished : \E k \in 1..Len(log) : log[k] = f
    /\ pc # "raised" => error = NoError
    /\ pc \notin {"raised", "done"} => ENABLED Next
    /\ pc = "done" =>
          /\ log = Order
          /\ finished = Range(Order)
          /\ Written = EdaFiles \cup ModelFiles \cup ResultFiles
          /\ Cardinality(Written) = 11

\* a run on a record file of MaxCsvRows rows has reached its end
C7_Witness ==
    /\ pc = "done"
    /\ error = NoError
    /\ Rows(heap[df_dataset]) = MaxCsvRows

\* the report drawn directly below a heading: the nearest one under it
BlockBelow(texts, heading) ==
    LET h == CHOOSE t \in Range(texts) : t.heading = heading
        under == {t \in Range(texts) : t.heading = "" /\ t.y < h.y}
    IN  (CHOOSE t \in under : \A u \in under : u.y <= t.y).report

TrainReport(p) == classification_report(split.y_train.values, p)

TestReport(p) == classification_report(split.y_test.values, p)

RandomForestImage ==
    "./images/results/rf_results.png" \in Written =>
        LET texts == files["./images/results/rf_results.png"]
        IN  /\ BlockBelow(texts, "Random Forest Train")
                  = TrainReport(preds.y_train_preds_rf)
            /\ BlockBelow(texts, "Random Forest Test")
                  = TestReport(preds.y_test_preds_rf)

LogisticRegressionImage ==
    "./images/results/logistic_results.png" \in Written =>
        LET texts == files["./images/results/logistic_results.png"]
        IN  /\ BlockBelow(texts, "Logistic Regression Train")
                  = TrainReport(preds.y_train_preds_lr)
            /\ BlockBelow(texts, "Logistic Regression Test")
                  = TestReport(preds.y_test_preds_lr)

\* C8: in each of the two report images, the block directly below the
\* heading '<Model> Train' is the report of (y_train, the model's train
\* predictions) and the block directly below '<Model> Test' is the report of
\* (y_test, the model's test predictions).
C8_ReportsUnderTheirHeadings ==
    RandomForestImage /\ LogisticRegressionImage

(***************************************************************************)
(* Properties of feature_importance_plot                                   *)
(***************************************************************************)
PlotReturned == pc = "feature_importance_plot_returned"

Chart == files["./images/results/feature_importances.png"][1]

\* C9: the bars are non-increasing from left to right, they are a
\* permutation of the model's importance scores, and the label under each
\* bar names the feature column whose importance the bar shows.
C9_SortedBars ==
    PlotReturned =>
        LET importances == cv_rfc.feature_importances_
            columns == split.x_test.columns
            n == Len(importances)
        IN  /\ Len(Chart.bars) = n
            /\ Len(Chart.xticks) = n
            /\ \A k \in 1..(n - 1) : Chart.bars[k] >= Chart.bars[k + 1]
            /\ \E p \in RowPermutations(n) :
                  \A k \in 1..n :
                      /\ Chart.bars[k] = importances[p[k]]
                      /\ Chart.xticks[k] = columns[p[k]]

\* MaxFeatures scores with a tie, not in descending order to begin with
C9_Witness ==
    /\ PlotReturned
    /\ LET importances == cv_rfc.feature_importances_
       IN  /\ Len(importances) = MaxFeatures
           /\ importances[1] < importances[2]
           /\ importances[2] = importances[3]
           /\ Chart.xticks[MaxFeatures] = split.x_test.columns[1]

====
